---- MODULE Spec2Model ----
(***************************************************************************)
(* Contracts_Explorer.                                                     *)
(*                                                                         *)
(* reduce_dataset.py is a batch script: it projects every discovered CSV   *)
(* file (process_csv), concatenates the projected frames, cleans the       *)
(* result (drop_duplicates, dropna, value > 0), keeps the rows at or above *)
(* the 80th percentile of current_total_value_of_award together with a     *)
(* random sample of the rows below it, back-fills text columns and writes  *)
(* contracts_sample.parquet and contracts_sample.csv.                      *)
(*                                                                         *)
(* contracts_app.py loads the parquet file into a sqlite table and queries *)
(* it with a predicate built from the sidebar widgets.                     *)
(*                                                                         *)
(* A cell of a data frame is <<>> (NaN / NaT / None) or <<x>>.  A CSV cell *)
(* is the text of the cell.  A rational number is <<numerator,             *)
(* denominator>>; the quantile of integers at q = 0.8 has denominator 5.   *)
(***************************************************************************)
EXTENDS Integers, Sequences, FiniteSets, TLC

\* ------------------------------------------------------------------ bounds
\* Most files in a discovered list, and most rows over all files of a list
\* or in a file with defective rows.
MaxFiles == 2
MaxRows == 3
\* Most rows of a single well-formed file (the inputs that exercise sampling).
MaxN == 6

\* ------------------------------------------------------- generic helpers
NULL == <<>>

isna(c) == c = NULL

Cell(x) == <<x>>

Val(c) == c[1]

Min(a, b) == IF a <= b THEN a ELSE b

Range(s) == {s[i] : i \in 1..Len(s)}

RECURSIVE ConcatReversed(_)
\* The frames concatenated last frame first.
ConcatReversed(frames) ==
    IF frames = <<>> THEN <<>> ELSE ConcatReversed(Tail(frames)) \o Head(frames)

RECURSIVE Concat(_)
\* pd.concat of a list of frames: the rows of each frame, in list order.
Concat(frames) ==
    IF frames = <<>> THEN <<>> ELSE Head(frames) \o Concat(Tail(frames))

RECURSIVE SeqsUpTo(_, _)
\* Every sequence over S of length at most n.
SeqsUpTo(S, n) ==
    IF n = 0 THEN {<<>>}
    ELSE LET shorter == SeqsUpTo(S, n - 1)
         IN  shorter \cup {Append(s, x) : s \in {t \in shorter : Len(t) = n - 1}, x \in S}

\* ------------------------------------------------------------ CSV cells
\* Texts of a numeric column and the number pd.to_numeric reads from each;
\* any other text ("N/A", "") is not a number.
NumericText ==
    ("-5" :> -5) @@ ("0" :> 0) @@ ("10" :> 10) @@ ("20" :> 20) @@ ("30" :> 30)
    @@ ("40" :> 40) @@ ("50" :> 50) @@ ("60" :> 60) @@ ("70" :> 70)
    @@ ("80" :> 80) @@ ("90" :> 90) @@ ("100" :> 100)

\* Texts of a date column and the date pd.to_datetime reads from each, as
\* <<year, month, day>>; any other text is not a date.
DateText ==
    ("2024-03-01" :> <<2024, 3, 1>>) @@ ("2025-06-30" :> <<2025, 6, 30>>)

\* The cell texts pd.read_csv reads as NaN by default.
na_values ==
    {"", "#N/A", "#N/A N/A", "#NA", "-1.#IND", "-1.#QNAN", "-NaN", "-nan",
     "1.#IND", "1.#QNAN", "<NA>", "N/A", "NA", "NULL", "NaN", "None", "n/a",
     "nan", "null"}

\* pd.read_csv: a cell in na_values is NaN, any other cell keeps its text.
read_cell(text) == IF text \in na_values THEN NULL ELSE Cell(text)

\* pd.to_numeric(errors='coerce')
to_numeric(text) ==
    IF text \in DOMAIN NumericText THEN Cell(NumericText[text]) ELSE NULL

\* pd.to_datetime(errors='coerce')
to_datetime(text) ==
    IF text \in DOMAIN DateText THEN Cell(DateText[text]) ELSE NULL

\* One CSV row restricted to COLUMNS_TO_KEEP.  The columns the script only
\* carries along are represented by naics_description.
RawRow(k, r, a, v, d, n) ==
    [contract_transaction_unique_key |-> k, recipient_name |-> r,
     awarding_agency_name |-> a, current_total_value_of_award |-> v,
     action_date |-> d, naics_description |-> n]

\* The row of the projected frame read from one CSV row.
ProjectRow(raw) ==
    [contract_transaction_unique_key |-> read_cell(raw.contract_transaction_unique_key),
     recipient_name |-> read_cell(raw.recipient_name),
     awarding_agency_name |-> read_cell(raw.awarding_agency_name),
     current_total_value_of_award |-> to_numeric(raw.current_total_value_of_award),
     action_date |-> to_datetime(raw.action_date),
     naics_description |-> read_cell(raw.naics_description)]

\* A discovered file: readable with all the columns ("ok"), or one that
\* pd.read_csv raises on ("unreadable", "missing_column").
File(kind, rows) == [kind |-> kind, rows |-> rows]

\* process_csv: None when reading raises, the projected frame otherwise.
process_csv(file) ==
    IF file.kind = "ok"
    THEN [none |-> FALSE,
          df |-> [i \in 1..Len(file.rows) |-> ProjectRow(file.rows[i])]]
    ELSE [none |-> TRUE, df |-> <<>>]

\* --------------------------------------------------------------- cleaning
\* The rows of df at the indices in I, in frame order.
Rows(df, I) ==
    LET F[n \in 0..Len(df)] ==
            IF n = 0 THEN <<>>
            ELSE IF n \in I THEN Append(F[n - 1], df[n]) ELSE F[n - 1]
    IN  F[Len(df)]

\* drop_duplicates with keep='last'.
drop_duplicates_last(df) ==
    Rows(df, {i \in 1..Len(df) :
                \A j \in (i + 1)..Len(df) :
                    df[j].contract_transaction_unique_key
                        # df[i].contract_transaction_unique_key})

\* df.drop_duplicates(subset='contract_transaction_unique_key'): keep='first',
\* and missing keys count as equal to one another.
drop_duplicates(df) ==
    Rows(df, {i \in 1..Len(df) :
                \A j \in 1..(i - 1) :
                    df[j].contract_transaction_unique_key
                        # df[i].contract_transaction_unique_key})

critical_columns ==
    {"contract_transaction_unique_key", "recipient_name", "awarding_agency_name",
     "current_total_value_of_award", "action_date"}

\* df.dropna(subset=critical_columns)
dropna(df) ==
    Rows(df, {i \in 1..Len(df) : \A c \in critical_columns : ~isna(df[i][c])})

\* The filter with >= 0 in place of > 0.
nonnegative(df) ==
    Rows(df, {i \in 1..Len(df) : Val(df[i].current_total_value_of_award) >= 0})

\* df[df['current_total_value_of_award'] > 0], on a frame without missing values
positive(df) ==
    Rows(df, {i \in 1..Len(df) : Val(df[i].current_total_value_of_award) > 0})

\* --------------------------------------------------------------- sampling
\* q = 0.8 as QNum / QDen
QNum == 4
QDen == 5

RECURSIVE Insert(_, _)
Insert(x, s) ==
    IF s = <<>> THEN <<x>>
    ELSE IF x <= Head(s) THEN <<x>> \o s
    ELSE <<Head(s)>> \o Insert(x, Tail(s))

RECURSIVE Sorted(_)
Sorted(s) == IF s = <<>> THEN <<>> ELSE Insert(Head(s), Sorted(Tail(s)))

Values(df) == [i \in 1..Len(df) |-> Val(df[i].current_total_value_of_award)]

\* The quantile with interpolation='lower': the order statistic at floor(h).
quantile_lower(values) ==
    IF values = <<>> THEN NULL
    ELSE LET n == Len(values)
             s == Sorted(values)
             k == (QNum * (n - 1)) \div QDen
         IN  <<QDen * s[k + 1], QDen>>

\* Series.quantile(0.8), interpolation='linear': NaN on an empty series; else,
\* with s the sorted values (from index 0) and h = q * (n - 1),
\* s[floor(h)] + (h - floor(h)) * (s[floor(h) + 1] - s[floor(h)]).
quantile(values) ==
    IF values = <<>> THEN NULL
    ELSE LET n == Len(values)
             s == Sorted(values)
             k == (QNum * (n - 1)) \div QDen
             r == (QNum * (n - 1)) % QDen
             lo == s[k + 1]
             hi == s[Min(k + 2, n)]
         IN  <<QDen * lo + r * (hi - lo), QDen>>

\* v >= t and v < t for a rational or NaN t; a comparison with NaN is False.
ge(v, t) == ~isna(t) /\ v * t[2] >= t[1]

lt(v, t) == ~isna(t) /\ v * t[2] < t[1]

\* combined_df[combined_df['current_total_value_of_award'] >= threshold]
large_of(df, t) ==
    Rows(df, {i \in 1..Len(df) : ge(Val(df[i].current_total_value_of_award), t)})

\* combined_df[combined_df['current_total_value_of_award'] < threshold]
small_of(df, t) ==
    Rows(df, {i \in 1..Len(df) : lt(Val(df[i].current_total_value_of_award), t)})

\* n=min(len(large_contracts), len(combined_df))
sample_n(large, df) == Min(Len(large), Len(df))

\* DataFrame.sample(n) without replacement raises ValueError when n exceeds
\* the number of rows.
sample_raises(pool, n) == n > Len(pool)

\* Sampling with replacement: n rows of pool, not necessarily distinct.
sample_replace(pool, n) ==
    {[i \in 1..n |-> pool[p[i]]] : p \in [1..n -> 1..Len(pool)]}

\* The frames DataFrame.sample(n) can return: n distinct rows of pool, in any
\* order.
sample(pool, n) ==
    {[i \in 1..n |-> pool[p[i]]] :
        p \in {q \in [1..n -> 1..Len(pool)] :
                 \A a, b \in 1..n : a # b => q[a] # q[b]}}

\* df_sampled.fillna({... 'naics_description': 'Unclassified'})
fillna(df) ==
    [i \in 1..Len(df) |->
        IF isna(df[i].naics_description)
        THEN [df[i] EXCEPT !.naics_description = Cell("Unclassified")]
        ELSE df[i]]

\* ----------------------------------------------------------------- inputs
KeyText == <<"K1", "K2", "K3", "K4", "K5", "K6", "K7", "K8", "K9", "K10", "K11", "K12">>

\* A CSV row with every required cell present and parseable.
GoodRow(k, v) == RawRow(k, "ACME", "DOD", v, "2024-03-01", "Engineering")

\* CSV rows: well-formed rows (two of them with the same key and different
\* values, one without naics_description) and rows with one defect each.
RawRows ==
    {GoodRow("K1", "10"), GoodRow("K1", "30"),
     RawRow("K2", "ACME", "DOD", "20", "2025-06-30", ""),
     RawRow("", "ACME", "DOD", "10", "2024-03-01", "Engineering"),
     RawRow("K1", "", "DOD", "20", "2024-03-01", "Engineering"),
     RawRow("K2", "ACME", "", "30", "2024-03-01", "Engineering"),
     RawRow("K2", "ACME", "DOD", "N/A", "2024-03-01", "Engineering"),
     RawRow("K1", "ACME", "DOD", "20", "13/45/2024", "Engineering"),
     RawRow("K2", "ACME", "DOD", "0", "2024-03-01", "Engineering"),
     RawRow("K1", "ACME", "DOD", "-5", "2024-03-01", "Engineering")}

\* One readable file of at most MaxRows rows drawn from RawRows.
CleaningInputs == {<<File("ok", rs)>> : rs \in SeqsUpTo(RawRows, MaxRows)}

\* What a file of a list is: unreadable, without a required column, or
\* readable with n rows.
FileShapes ==
    {[kind |-> "ok", n |-> m] : m \in 0..MaxRows}
        \cup {[kind |-> k, n |-> 0] : k \in {"unreadable", "missing_column"}}

RECURSIVE TotalRows(_)
TotalRows(shapes) ==
    IF shapes = <<>> THEN 0 ELSE Head(shapes).n + TotalRows(Tail(shapes))

\* The files of the given shapes holding the rows rs, in order.
Cut(rs, shapes) ==
    [j \in 1..Len(shapes) |->
        LET before == TotalRows(SubSeq(shapes, 1, j - 1))
        IN  File(shapes[j].kind, SubSeq(rs, before + 1, before + shapes[j].n))]

AggregationRows ==
    {GoodRow("K1", "10"), GoodRow("K1", "30"),
     RawRow("K2", "ACME", "DOD", "20", "2025-06-30", "")}

\* Lists of at most MaxFiles files, readable or not, with at most MaxRows
\* well-formed rows in all.
AggregationInputs ==
    UNION {{Cut(rs, shapes) : rs \in [1..TotalRows(shapes) -> AggregationRows]} :
            shapes \in {sh \in SeqsUpTo(FileShapes, MaxFiles) : TotalRows(sh) <= MaxRows}}

SampleValueText == {"10", "20", "30"}

\* One well-formed file of at most MaxN rows with distinct keys.
SampleInputs ==
    {<<File("ok", [i \in 1..Len(vs) |-> GoodRow(KeyText[i], vs[i])])>> :
        vs \in SeqsUpTo(SampleValueText, MaxN)}

ExampleValueText ==
    <<"10", "20", "30", "40", "50", "60", "70", "80", "90", "100", "10", "20">>

\* One file whose values are 10, 20, ..., 100.
ExampleInput ==
    <<File("ok", [i \in 1..10 |-> GoodRow(KeyText[i], ExampleValueText[i])])>>

\* A file of 5 rows and a file of 7 rows, with distinct keys.
TwoFileInput ==
    <<File("ok", [i \in 1..5 |-> GoodRow(KeyText[i], ExampleValueText[i])]),
      File("ok", [i \in 1..7 |-> GoodRow(KeyText[5 + i], ExampleValueText[5 + i])])>>

Inputs ==
    CleaningInputs \cup AggregationInputs \cup SampleInputs
        \cup {ExampleInput, TwoFileInput}

\* ------------------------------------------------------------------ state
VARIABLES
    csv_files,         \* the discovered files, in discovery order
    next_file,         \* position of the loop over csv_files
    all_data,          \* the frames collected by the loop
    errors,            \* positions of the files whose error was printed
    combined_df,
    threshold,
    large_contracts,
    small_contracts,
    df_sampled,
    parquet_file,      \* what is at contracts_sample.parquet
    csv_file,          \* what is at contracts_sample.csv
    pc,                \* the statement the script is at
    exit_code,         \* <<>> while running, <<code>> once the process ended
    \* contracts_app.py
    sample_parquet,    \* contracts_sample.parquet, NULL when the file is missing
    db_exists,         \* contracts.db exists
    contracts,         \* the contracts table of contracts.db, NULL without one
    end_date_min,      \* the "From End Date" widget
    end_date_max,      \* the "To End Date" widget
    recipient_search,
    agency_search,
    description_search,
    value_range,
    df,                \* df at the end of the last script run
    page               \* what the last script run left on the page

app ==
    <<sample_parquet, db_exists, contracts, end_date_min, end_date_max,
      recipient_search, agency_search, description_search, value_range, df, page>>

vars ==
    <<csv_files, next_file, all_data, errors, combined_df, threshold,
      large_contracts, small_contracts, df_sampled, parquet_file, csv_file, pc,
      exit_code, app>>

frames == <<combined_df, threshold, large_contracts, small_contracts, df_sampled>>

disk == <<parquet_file, csv_file>>

loop == <<csv_files, next_file, all_data, errors>>

PipelineInit(inputs) ==
    /\ csv_files \in inputs
    /\ next_file = 1
    /\ all_data = <<>>
    /\ errors = <<>>
    /\ combined_df = <<>>
    /\ threshold = NULL
    /\ large_contracts = <<>>
    /\ small_contracts = <<>>
    /\ df_sampled = <<>>
    /\ parquet_file = "previous"
    /\ csv_file = "previous"
    /\ pc = "load"
    /\ exit_code = NULL

\* -------------------------------------------------------------- dashboard
\* A text is a sequence of characters.  A date is <<year, month, day>>.

\* date.strftime('%Y-%m-%d'): the zero-padded digits of year, month and day
\* (the two '-' are the same in every text and are left out).
strftime(d) ==
    <<d[1] \div 1000, (d[1] \div 100) % 10, (d[1] \div 10) % 10, d[1] % 10,
      d[2] \div 10, d[2] % 10, d[3] \div 10, d[3] % 10>>

\* The text to_sql stores for a datetime64 cell, 'YYYY-MM-DD HH:MM:SS': the
\* digits of the date followed by those of the time, which is midnight.
timestamp_text(d) == strftime(d) \o <<0, 0, 0, 0, 0, 0>>

RECURSIVE TextLE(_, _)
\* a <= b for two texts in sqlite's BINARY collation: character by character,
\* a proper prefix being smaller.
TextLE(a, b) ==
    IF a = <<>> THEN TRUE
    ELSE IF b = <<>> THEN FALSE
    ELSE IF Head(a) < Head(b) THEN TRUE
    ELSE IF Head(a) > Head(b) THEN FALSE
    ELSE TextLE(Tail(a), Tail(b))

\* The ASCII letters, upper case and lower case, in the same order.
UpperCase ==
    <<"A", "B", "C", "D", "E", "F", "G", "H", "I", "J", "K", "L", "M",
      "N", "O", "P", "Q", "R", "S", "T", "U", "V", "W", "X", "Y", "Z">>

LowerCase ==
    <<"a", "b", "c", "d", "e", "f", "g", "h", "i", "j", "k", "l", "m",
      "n", "o", "p", "q", "r", "s", "t", "u", "v", "w", "x", "y", "z">>

\* sqlite folds the case of every ASCII letter in LIKE, and of nothing else.
Lower(c) ==
    IF \E i \in DOMAIN UpperCase : UpperCase[i] = c
    THEN LowerCase[CHOOSE i \in DOMAIN UpperCase : UpperCase[i] = c]
    ELSE c

RECURSIVE Like(_, _)
\* text LIKE pattern: % matches any run of characters, _ any one character,
\* any other character itself without regard to case.
Like(text, pattern) ==
    IF pattern = <<>> THEN text = <<>>
    ELSE IF Head(pattern) = "%"
         THEN Like(text, Tail(pattern)) \/ (text # <<>> /\ Like(Tail(text), pattern))
    ELSE IF text = <<>> THEN FALSE
    ELSE IF Head(pattern) = "_" THEN Like(Tail(text), Tail(pattern))
    ELSE Lower(Head(pattern)) = Lower(Head(text)) /\ Like(Tail(text), Tail(pattern))

\* f"%{search}%"
Pattern(search) == <<"%">> \o search \o <<"%">>

\* column LIKE ? on a cell: a NULL cell matches nothing.
CellLike(cell, search) == ~isna(cell) /\ Like(Val(cell), Pattern(search))

\* The columns of the contracts table the script filters on or rewrites.
AppRow(r, a, t, b, v, p, ad, e) ==
    [recipient_name |-> r, awarding_agency_name |-> a,
     transaction_description |-> t, prime_award_base_transaction_description |-> b,
     current_total_value_of_award |-> v,
     potential_total_value_of_award |-> p,
     action_date |-> ad,
     period_of_performance_current_end_date |-> e]

\* default_start = date(2025, 2, 1)
default_start == <<2025, 2, 1>>

\* The value of "To End Date" when the page loads.
default_end == <<2025, 12, 31>>

\* The ends of the "Current Total Value ($)" slider.
SliderMin == 0
SliderMax == 10000000

\* df.to_sql('contracts', conn, ...) of pd.read_parquet(...): a date becomes
\* its timestamp text, a missing date NULL.
to_sql(rows) ==
    [i \in 1..Len(rows) |->
        [rows[i] EXCEPT
            !.action_date =
                IF isna(@) THEN NULL ELSE Cell(timestamp_text(Val(@))),
            !.period_of_performance_current_end_date =
                IF isna(@) THEN NULL ELSE Cell(timestamp_text(Val(@)))]]

\* The WHERE clause the script builds, on one row of the table.  The first
\* parameter is default_start, whatever "From End Date" holds.
Where(row, from_date, to_date, recipient, agency, description, range) ==
    /\ ~isna(row.period_of_performance_current_end_date)
    /\ TextLE(strftime(default_start), Val(row.period_of_performance_current_end_date))
    /\ TextLE(Val(row.period_of_performance_current_end_date), strftime(to_date))
    /\ recipient # <<>> => CellLike(row.recipient_name, recipient)
    /\ agency # <<>> => CellLike(row.awarding_agency_name, agency)
    /\ description # <<>> =>
          \/ CellLike(row.transaction_description, description)
          \/ CellLike(row.prime_award_base_transaction_description, description)
    /\ row.current_total_value_of_award >= range[1]
    /\ row.current_total_value_of_award <= range[2]

\* pd.read_sql(query, conn, params=params)
read_sql(table, from_date, to_date, recipient, agency, description, range) ==
    Rows(table, {i \in 1..Len(table) :
                    Where(table[i], from_date, to_date, recipient, agency,
                          description, range)})

\* pd.to_datetime of a stored timestamp text: the Timestamp
\* <<year, month, day, hour, minute, second>>.
to_timestamp(t) ==
    <<1000 * t[1] + 100 * t[2] + 10 * t[3] + t[4], 10 * t[5] + t[6],
      10 * t[7] + t[8], 10 * t[9] + t[10], 10 * t[11] + t[12],
      10 * t[13] + t[14]>>

\* The characters of the decimal digits.
DigitChars == <<"0", "1", "2", "3", "4", "5", "6", "7", "8", "9">>

RECURSIVE Decimal(_)
\* The digits of a natural number.
Decimal(n) ==
    IF n < 10 THEN <<DigitChars[n + 1]>>
    ELSE Decimal(n \div 10) \o <<DigitChars[(n % 10) + 1]>>

RECURSIVE Thousands(_)
\* The ',' format option: the digits in groups of three from the right.
Thousands(n) ==
    IF n < 1000 THEN Decimal(n)
    ELSE Thousands(n \div 1000)
             \o <<",", DigitChars[((n % 1000) \div 100) + 1],
                  DigitChars[((n \div 10) % 10) + 1], DigitChars[(n % 10) + 1]>>

\* f"${x:,.2f}" of a whole number of dollars.
format_currency(x) == <<"$">> \o Thousands(x) \o <<".", "0", "0">>

\* The rewrite of df before it is shown: with at least one row, the two date
\* columns become Timestamps and the two value columns currency texts.
display(frame) ==
    IF Len(frame) > 0
    THEN [i \in 1..Len(frame) |->
            [frame[i] EXCEPT
                !.action_date =
                    IF isna(@) THEN NULL ELSE Cell(to_timestamp(Val(@))),
                !.period_of_performance_current_end_date =
                    IF isna(@) THEN NULL ELSE Cell(to_timestamp(Val(@))),
                !.current_total_value_of_award = format_currency(@),
                !.potential_total_value_of_award = format_currency(@)]]
    ELSE frame

\* Samples the dashboard is started on.
AppRows ==
    <<AppRow(Cell(<<"A", "b">>), Cell(<<"D">>), Cell(<<"a">>), Cell(<<"b">>),
             50, 1050, Cell(<<2025, 1, 2>>), Cell(<<2025, 3, 1>>)),
      AppRow(Cell(<<"B", "a">>), Cell(<<"d", "A">>), Cell(<<"b">>), Cell(<<"b">>),
             10000000, 10000000, Cell(<<2024, 12, 31>>), Cell(<<2025, 12, 31>>)),
      AppRow(Cell(<<"b">>), Cell(<<"D">>), Cell(<<"a", "b">>), Cell(<<"c">>),
             20000000, 20000000, Cell(<<2025, 1, 2>>), Cell(<<2025, 6, 30>>)),
      AppRow(Cell(<<"A", "b">>), Cell(<<"D">>), Cell(<<"a">>), Cell(<<"b">>),
             100, 0, Cell(<<2025, 1, 2>>), NULL),
      AppRow(Cell(<<"c">>), Cell(<<"c">>), Cell(<<"c">>), Cell(<<"c">>),
             100, 123456, Cell(<<2025, 1, 2>>), Cell(<<2025, 2, 1>>)),
      AppRow(Cell(<<"A", "b">>), Cell(<<"D">>), Cell(<<"a">>), Cell(<<"b">>),
             100, 100, Cell(<<2025, 1, 2>>), Cell(<<2025, 1, 15>>))>>

\* contracts_sample.parquet: missing, or holding some of the rows.
AppSamples == {NULL, Cell(AppRows), Cell(SubSeq(AppRows, 1, 3))}

\* Values the widgets are set to; date_input has min_value=default_start.
FromDates == {default_start, <<2025, 6, 1>>}

ToDates == {default_start, <<2025, 3, 1>>, default_end}

Searches == {<<>>, <<"a">>, <<"_">>, <<"B", "A">>, <<"d">>}

ValueRanges == {<<SliderMin, SliderMax>>, <<SliderMin, 50>>, <<100, SliderMax>>}

AppInit(samples) ==
    /\ sample_parquet \in samples
    /\ db_exists = FALSE
    /\ contracts = NULL
    /\ end_date_min = default_start
    /\ end_date_max = default_end
    /\ recipient_search = <<>>
    /\ agency_search = <<>>
    /\ description_search = <<>>
    /\ value_range = <<SliderMin, SliderMax>>
    /\ df = <<>>
    /\ page = "closed"

\* init_db(): the contracts table afterwards.  With contracts.db present
\* nothing is done; otherwise sqlite3.connect creates the file, and the table
\* is written unless read_parquet raises.
init_db ==
    IF db_exists \/ isna(sample_parquet) THEN contracts
    ELSE Cell(to_sql(Val(sample_parquet)))

\* One run of the script with the widgets at the given values: init_db(),
\* the widgets, the query, and the rewrite of df for display.  When
\* read_parquet raises in init_db the run ends there; when the table is
\* missing the query raises and df is never assigned.
ScriptRun(from_date, to_date, recipient, agency, description, range) ==
    /\ contracts' = init_db
    /\ db_exists' = TRUE
    /\ end_date_min' = from_date
    /\ end_date_max' = to_date
    /\ recipient_search' = recipient
    /\ agency_search' = agency
    /\ description_search' = description
    /\ value_range' = range
    /\ IF ~db_exists /\ isna(sample_parquet)
       THEN /\ page' = "init_db_error"
            /\ df' = <<>>
       ELSE IF isna(contracts')
       THEN /\ page' = "query_error"
            /\ df' = <<>>
       ELSE /\ page' = "results"
            /\ df' = display(read_sql(Val(contracts'), from_date, to_date,
                                      recipient, agency, description, range))
    /\ UNCHANGED <<sample_parquet, csv_files, next_file, all_data, errors,
                   combined_df, threshold, large_contracts, small_contracts,
                   df_sampled, parquet_file, csv_file, pc, exit_code>>

\* The widgets are on the page once a run has got past init_db().
widgets_shown == page \in {"results", "query_error"}

\* The page is opened in a new session: the script runs with every widget at
\* its default.
LoadPage ==
    ScriptRun(default_start, default_end, <<>>, <<>>, <<>>, <<SliderMin, SliderMax>>)

\* The user changes a widget, and the script runs again.
SetEndDateMin ==
    /\ widgets_shown
    /\ \E d \in FromDates :
          ScriptRun(d, end_date_max, recipient_search, agency_search,
                    description_search, value_range)

SetEndDateMax ==
    /\ widgets_shown
    /\ \E d \in ToDates :
          ScriptRun(end_date_min, d, recipient_search, agency_search,
                    description_search, value_range)

SetRecipientSearch ==
    /\ widgets_shown
    /\ \E t \in Searches :
          ScriptRun(end_date_min, end_date_max, t, agency_search,
                    description_search, value_range)

SetAgencySearch ==
    /\ widgets_shown
    /\ \E t \in Searches :
          ScriptRun(end_date_min, end_date_max, recipient_search, t,
                    description_search, value_range)

SetDescriptionSearch ==
    /\ widgets_shown
    /\ \E t \in Searches :
          ScriptRun(end_date_min, end_date_max, recipient_search, agency_search,
                    t, value_range)

SetValueRange ==
    /\ widgets_shown
    /\ \E r \in ValueRanges :
          ScriptRun(end_date_min, end_date_max, recipient_search, agency_search,
                    description_search, r)

\* analyze_data.py: sqlite3.connect creates contracts.db when it is missing,
\* without any table; the script then reads five rows and prints them, or
\* ends on the exception read_sql raises when there is no contracts table.
AnalyzeData ==
    /\ db_exists' = TRUE
    /\ UNCHANGED <<sample_parquet, contracts, end_date_min, end_date_max,
                   recipient_search, agency_search, description_search,
                   value_range, df, page, csv_files, next_file, all_data,
                   errors, combined_df, threshold, large_contracts,
                   small_contracts, df_sampled, parquet_file, csv_file, pc,
                   exit_code>>

AppNext ==
    \/ LoadPage
    \/ SetEndDateMin
    \/ SetEndDateMax
    \/ SetRecipientSearch
    \/ SetAgencySearch
    \/ SetDescriptionSearch
    \/ SetValueRange
    \/ AnalyzeData

\* ---------------------------------------------------------- specifications
\* reduce_dataset.py, on every input; the dashboard is not started.
Init == PipelineInit(Inputs) /\ AppInit({NULL})

\* contracts_app.py, on every sample; the pipeline is not started.
AppSpecInit == PipelineInit({<<>>}) /\ AppInit(AppSamples)

AppSpec == AppSpecInit /\ [][AppNext]_vars

\* An uncaught exception ends the process with exit code 1.
Raise(at) == pc' = at /\ exit_code' = Cell(1)

\* ---------------------------------------------------------------- actions
\* Every frame is collected, the empty ones too.
keeps_empty(r) == ~r.none

\* if df is not None and len(df) > 0
keeps(r) == ~r.none /\ Len(r.df) > 0

\* One iteration of `for file in csv_files`.
ProcessFile ==
    /\ pc = "load"
    /\ next_file <= Len(csv_files)
    /\ LET r == process_csv(csv_files[next_file])
       IN  /\ all_data' = IF keeps(r) THEN Append(all_data, r.df) ELSE all_data
           /\ errors' = IF r.none THEN Append(errors, next_file) ELSE errors
    /\ next_file' = next_file + 1
    /\ UNCHANGED <<app, csv_files, frames, disk, pc, exit_code>>

\* if not all_data: exit(1)
NoValidData ==
    /\ pc = "load"
    /\ next_file > Len(csv_files)
    /\ all_data = <<>>
    /\ pc' = "no_valid_data"
    /\ exit_code' = Cell(1)
    /\ UNCHANGED <<app, loop, frames, disk>>

\* combined_df = pd.concat(all_data, ignore_index=True)
Combine ==
    /\ pc = "load"
    /\ next_file > Len(csv_files)
    /\ all_data # <<>>
    /\ combined_df' = Concat(all_data)
    /\ pc' = "drop_duplicates"
    /\ UNCHANGED <<app, loop, threshold, large_contracts, small_contracts, df_sampled,
                   disk, exit_code>>

DropDuplicates ==
    /\ pc = "drop_duplicates"
    /\ combined_df' = drop_duplicates(combined_df)
    /\ pc' = "dropna"
    /\ UNCHANGED <<app, loop, threshold, large_contracts, small_contracts, df_sampled,
                   disk, exit_code>>

DropNa ==
    /\ pc = "dropna"
    /\ combined_df' = dropna(combined_df)
    /\ pc' = "positive"
    /\ UNCHANGED <<app, loop, threshold, large_contracts, small_contracts, df_sampled,
                   disk, exit_code>>

FilterPositive ==
    /\ pc = "positive"
    /\ combined_df' = positive(combined_df)
    /\ pc' = "sample"
    /\ UNCHANGED <<app, loop, threshold, large_contracts, small_contracts, df_sampled,
                   disk, exit_code>>

\* threshold, large_contracts, small_contracts and df_sampled, when sample()
\* returns.
Sample ==
    /\ pc = "sample"
    /\ LET t == quantile(Values(combined_df))
           large == large_of(combined_df, t)
           pool == small_of(combined_df, t)
           n == sample_n(large, combined_df)
       IN  /\ ~sample_raises(pool, n)
           /\ threshold' = t
           /\ large_contracts' = large
           /\ small_contracts' \in sample(pool, n)
           /\ df_sampled' = large \o small_contracts'
    /\ pc' = "fillna"
    /\ UNCHANGED <<app, loop, combined_df, disk, exit_code>>

\* The same statements when sample() raises ValueError: small_contracts and
\* df_sampled are never assigned.
SampleRaises ==
    /\ pc = "sample"
    /\ LET t == quantile(Values(combined_df))
           large == large_of(combined_df, t)
           pool == small_of(combined_df, t)
           n == sample_n(large, combined_df)
       IN  /\ sample_raises(pool, n)
           /\ threshold' = t
           /\ large_contracts' = large
    /\ Raise("sample_error")
    /\ UNCHANGED <<app, loop, combined_df, small_contracts, df_sampled, disk>>

FillNa ==
    /\ pc = "fillna"
    /\ df_sampled' = fillna(df_sampled)
    /\ pc' = "to_parquet"
    /\ UNCHANGED <<app, loop, combined_df, threshold, large_contracts, small_contracts,
                   disk, exit_code>>

\* df_sampled.to_parquet('contracts_sample.parquet', compression='gzip')
SaveParquet ==
    /\ pc = "to_parquet"
    /\ parquet_file' = "new"
    /\ pc' = "to_csv"
    /\ UNCHANGED <<app, loop, frames, csv_file, exit_code>>

\* to_parquet raises (the directory is not writable, the disk is full): the
\* file at the path is untouched or holds what was written so far.
SaveParquetRaises ==
    /\ pc = "to_parquet"
    /\ parquet_file' \in {parquet_file, "partial"}
    /\ Raise("write_error")
    /\ UNCHANGED <<app, loop, frames, csv_file>>

\* df_sampled.to_csv('contracts_sample.csv', index=False)
SaveCsv ==
    /\ pc = "to_csv"
    /\ csv_file' = "new"
    /\ pc' = "report"
    /\ UNCHANGED <<app, loop, frames, parquet_file, exit_code>>

SaveCsvRaises ==
    /\ pc = "to_csv"
    /\ csv_file' \in {csv_file, "partial"}
    /\ Raise("write_error")
    /\ UNCHANGED <<app, loop, frames, parquet_file>>

\* The size, value and date report, then the end of the script.
Report ==
    /\ pc = "report"
    /\ df_sampled # <<>>
    /\ pc' = "done"
    /\ exit_code' = Cell(0)
    /\ UNCHANGED <<app, loop, frames, disk>>

\* On an empty sample action_date.min() is NaT, and formatting NaT with
\* %Y-%m-%d raises ValueError.
ReportRaises ==
    /\ pc = "report"
    /\ df_sampled = <<>>
    /\ Raise("report_error")
    /\ UNCHANGED <<app, loop, frames, disk>>

Next ==
    \/ ProcessFile
    \/ NoValidData
    \/ Combine
    \/ DropDuplicates
    \/ DropNa
    \/ FilterPositive
    \/ Sample
    \/ SampleRaises
    \/ FillNa
    \/ SaveParquet
    \/ SaveParquetRaises
    \/ SaveCsv
    \/ SaveCsvRaises
    \/ Report
    \/ ReportRaises

Spec == Init /\ [][Next]_vars

\* ------------------------------------------------------------ properties
\* Statements past the cleaning block, and past the sampling block when
\* sample() returned.
Cleaned ==
    pc \in {"sample", "sample_error", "fillna", "to_parquet", "to_csv", "report",
            "done", "write_error", "report_error"}

Sampled ==
    pc \in {"fillna", "to_parquet", "to_csv", "report", "done", "write_error",
            "report_error"}

ValueOf(row) == Val(row.current_total_value_of_award)

KeyOf(row) == row.contract_transaction_unique_key

\* Positions of the cleaned rows at or above, and below, the threshold.
LargeIdx == {i \in 1..Len(combined_df) : ValueOf(combined_df[i]) * threshold[2] >= threshold[1]}

SmallIdx == {i \in 1..Len(combined_df) : ValueOf(combined_df[i]) * threshold[2] < threshold[1]}

\* The sampling block has run, whether or not sample() returned.
SamplerRan == pc = "sample_error" \/ Sampled

\* C1: every run of the sampler on a non-empty cleaned set yields a sample of
\* |large| + min(|large|, |small|) rows, which is at most 2 * |large|, where
\* large and small are the cleaned rows at or above and below the threshold.
C1_SampleSize ==
    (SamplerRan /\ combined_df # <<>>) =>
        LET large == Cardinality(LargeIdx)
            small == Cardinality(SmallIdx)
        IN  /\ Sampled
            /\ Len(df_sampled) = large + Min(large, small)
            /\ Len(df_sampled) <= 2 * large

\* What holds of the code: when sample() returns, small has at least as many
\* rows as large and the sample has 2 * |large| rows.
SizeWhenSampled ==
    (Sampled /\ combined_df # <<>>) =>
        /\ Cardinality(SmallIdx) >= Cardinality(LargeIdx)
        /\ Len(df_sampled) = 2 * Cardinality(LargeIdx)

\* C2: on every cleaned set with at least one record the sampler completes
\* without error and draws min(|large|, |small|) rows of small; when all the
\* values are equal the output is the whole input.
C2_NeverOverdraws ==
    /\ (pc = "sample_error" => combined_df = <<>>)
    /\ (Sampled /\ combined_df # <<>>) =>
          Len(small_contracts) = Min(Cardinality(LargeIdx), Cardinality(SmallIdx))

\* C3: after the cleaning block no two rows share a key, the five required
\* cells of every row are present, and every value is greater than 0; a cell
\* whose text is no number or no date was read as missing, and the run got
\* past the cleaning block.
C3_CleanedInvariants ==
    Cleaned =>
        /\ \A i, j \in 1..Len(combined_df) :
              i # j => KeyOf(combined_df[i]) # KeyOf(combined_df[j])
        /\ \A i \in 1..Len(combined_df) :
              /\ combined_df[i].contract_transaction_unique_key # NULL
              /\ combined_df[i].recipient_name # NULL
              /\ combined_df[i].awarding_agency_name # NULL
              /\ combined_df[i].current_total_value_of_award # NULL
              /\ combined_df[i].action_date # NULL
              /\ ValueOf(combined_df[i]) > 0
        /\ \A f \in 1..Len(csv_files) : \A i \in 1..Len(csv_files[f].rows) :
              LET raw == csv_files[f].rows[i]
              IN  (\/ raw.current_total_value_of_award \notin DOMAIN NumericText
                   \/ raw.action_date \notin DOMAIN DateText)
                  => \A c \in 1..Len(combined_df) :
                        \/ KeyOf(combined_df[c]) # read_cell(raw.contract_transaction_unique_key)
                        \/ \E g \in 1..Len(csv_files) : \E h \in 1..Len(csv_files[g].rows) :
                              /\ g < f \/ (g = f /\ h < i)
                              /\ csv_files[g].rows[h].contract_transaction_unique_key
                                   = raw.contract_transaction_unique_key

C3_Witness ==
    /\ pc = "sample"
    /\ Len(combined_df) >= 1
    /\ \E i \in 1..Len(csv_files[1].rows) :
          csv_files[1].rows[i].current_total_value_of_award = "N/A"
    /\ \E i \in 1..Len(csv_files[1].rows) :
          csv_files[1].rows[i].current_total_value_of_award = "0"

\* Positions of the files that were read with all their columns.
OkFiles == {f \in 1..Len(csv_files) : csv_files[f].kind = "ok"}

\* Rows of the readable files before file f.
RowsBefore(f) ==
    LET N[g \in 0..Len(csv_files)] ==
            IF g = 0 THEN 0
            ELSE N[g - 1] + (IF g \in OkFiles THEN Len(csv_files[g].rows) ELSE 0)
    IN  N[f - 1]

LoopDone == pc # "load" \/ next_file > Len(csv_files)

\* The aggregated frame holds the rows of the readable files, in file order
\* and row order; the unreadable files are the ones reported, and every file
\* was processed.
AggregatedInOrder ==
    pc = "drop_duplicates" =>
        /\ Len(combined_df) = RowsBefore(Len(csv_files) + 1)
        /\ \A f \in OkFiles : \A i \in 1..Len(csv_files[f].rows) :
              combined_df[RowsBefore(f) + i] = ProjectRow(csv_files[f].rows[i])
        /\ Range(errors) = (1..Len(csv_files)) \ OkFiles
        /\ next_file = Len(csv_files) + 1

\* C4 as stated: the aggregated frame is the in-order concatenation, and the
\* run does not fail as long as one file was read successfully.
C4_AsStated ==
    /\ AggregatedInOrder
    /\ (LoopDone /\ OkFiles # {}) => pc # "no_valid_data"

\* C4 amended: the aggregated frame is the in-order concatenation, and the run
\* does not end with the no-valid-data exit as long as one file was read
\* successfully with at least one row.
C4_Aggregation ==
    /\ AggregatedInOrder
    /\ (LoopDone /\ \E f \in OkFiles : Len(csv_files[f].rows) > 0)
          => pc # "no_valid_data"

C4_Witness ==
    /\ pc = "drop_duplicates"
    /\ Len(combined_df) >= 2
    /\ \E f, g \in 1..Len(csv_files) :
          /\ f < g
          /\ csv_files[f].kind = "missing_column"
          /\ csv_files[g].kind = "ok"
          /\ Len(csv_files[g].rows) > 0

\* No discovered file yields a row: each one fails or is empty.
ZeroValid ==
    \A f \in 1..Len(csv_files) :
        csv_files[f].kind # "ok" \/ Len(csv_files[f].rows) = 0

\* C5: when no source yields a row the run ends at the no-valid-data exit
\* with exit code 1, before any cleaning, sampling or writing, and neither
\* output file is written; the exit code is 0 only when a source yielded rows
\* and both files were written.
C5_ZeroSources ==
    /\ ZeroValid =>
          /\ pc \in {"load", "no_valid_data"}
          /\ LoopDone => (pc = "no_valid_data" \/ ENABLED NoValidData)
          /\ exit_code \in {NULL, Cell(1)}
          /\ exit_code = Cell(1) <=> pc = "no_valid_data"
          /\ combined_df = <<>> /\ df_sampled = <<>>
          /\ parquet_file = "previous" /\ csv_file = "previous"
    /\ exit_code = Cell(0) =>
          /\ ~ZeroValid
          /\ parquet_file = "new" /\ csv_file = "new"

C5_Witness ==
    /\ pc = "no_valid_data"
    /\ exit_code = Cell(1)
    /\ \E f \in 1..Len(csv_files) : csv_files[f].kind = "unreadable"
    /\ \E f \in OkFiles : Len(csv_files[f].rows) = 0

\* C6: neither output path ever holds a partly written file, and a run that
\* failed while writing leaves no new artifact at either path.
C6_AtomicOutputs ==
    /\ parquet_file # "partial"
    /\ csv_file # "partial"
    /\ pc = "write_error" => (parquet_file = "previous" /\ csv_file = "previous")

\* The aggregated frame, before cleaning.
Aggregated == Concat(all_data)

\* The row passes the required-field and positivity filters.
Passes(row) ==
    /\ \A c \in critical_columns : row[c] # NULL
    /\ ValueOf(row) > 0

\* Position of the first row of agg with the key of the row at i.
FirstWithKey(agg, i) ==
    CHOOSE f \in 1..i :
        /\ KeyOf(agg[f]) = KeyOf(agg[i])
        /\ \A g \in 1..(f - 1) : KeyOf(agg[g]) # KeyOf(agg[i])

\* C8: every cleaned row at or above the threshold is in the sample exactly
\* once; every other sampled row is a cleaned row below the threshold, at most
\* once; so the sample is a sub-collection of the cleaned set with unique keys.
C8_SampleIsUnion ==
    (Sampled /\ combined_df # <<>>) =>
        /\ \A i \in LargeIdx :
              Cardinality({j \in 1..Len(df_sampled) :
                              KeyOf(df_sampled[j]) = KeyOf(combined_df[i])}) = 1
        /\ \A j \in 1..Len(df_sampled) :
              \E i \in 1..Len(combined_df) :
                  /\ KeyOf(df_sampled[j]) = KeyOf(combined_df[i])
                  /\ ValueOf(df_sampled[j]) = ValueOf(combined_df[i])
                  /\ df_sampled[j].recipient_name = combined_df[i].recipient_name
                  /\ df_sampled[j].action_date = combined_df[i].action_date
        /\ \A j, k \in 1..Len(df_sampled) :
              j # k => KeyOf(df_sampled[j]) # KeyOf(df_sampled[k])

C8_Witness ==
    /\ pc = "done"
    /\ Len(large_contracts) >= 2
    /\ Len(small_contracts) >= 2
    /\ Len(combined_df) > Len(df_sampled)

\* C9: the cleaned set holds, for each key, the first aggregated row with that
\* key when that row passes the filters, and no row with that key otherwise,
\* even if a later row with the key would pass.
C9_FirstOccurrenceWins ==
    Cleaned =>
        LET agg == Aggregated
        IN  \A i \in 1..Len(agg) :
                LET first == agg[FirstWithKey(agg, i)]
                    kept == {c \in 1..Len(combined_df) :
                                KeyOf(combined_df[c]) = KeyOf(agg[i])}
                IN  /\ Passes(first) => (Cardinality(kept) = 1
                                          /\ \A c \in kept : combined_df[c] = first)
                    /\ ~Passes(first) => kept = {}

C9_Witness ==
    /\ pc = "sample"
    /\ combined_df # <<>>
    /\ LET agg == Aggregated
       IN  \E i, j \in 1..Len(agg) :
              /\ i < j
              /\ FirstWithKey(agg, j) = i
              /\ ~Passes(agg[i])
              /\ Passes(agg[j])

\* The order statistic of the values vs at position j, from 0: the value with
\* at most j values below it and more than j values at or below it.
OrderStatistic(vs, j) ==
    CHOOSE v \in Range(vs) :
        /\ Cardinality({i \in 1..Len(vs) : vs[i] < v}) <= j
        /\ Cardinality({i \in 1..Len(vs) : vs[i] <= v}) > j

\* C10: the threshold is the linear interpolation of the cleaned values at
\* position 0.8 * (n - 1), large is the cleaned rows at or above it, and on
\* the values 10, 20, ..., 100 the threshold is 82, large is {90, 100}, two of
\* the small rows are sampled and the sample has 4 rows.
C10_Threshold ==
    /\ (SamplerRan /\ combined_df # <<>>) =>
          LET n == Len(combined_df)
              vs == [i \in 1..n |-> ValueOf(combined_df[i])]
              k == (4 * (n - 1)) \div 5
              r == (4 * (n - 1)) % 5
              lo == OrderStatistic(vs, k)
              hi == OrderStatistic(vs, Min(k + 1, n - 1))
          IN  /\ threshold[1] * 5 = (5 * lo + r * (hi - lo)) * threshold[2]
              /\ large_contracts = Rows(combined_df, LargeIdx)
    /\ (Sampled /\ csv_files = ExampleInput) =>
          /\ threshold[1] = 82 * threshold[2]
          /\ {ValueOf(large_contracts[i]) : i \in 1..Len(large_contracts)} = {90, 100}
          /\ Len(large_contracts) = 2
          /\ Len(small_contracts) = 2
          /\ Len(df_sampled) = 4

C10_Witness ==
    /\ pc = "done"
    /\ csv_files = ExampleInput
    /\ threshold = <<410, 5>>
    /\ Len(df_sampled) = 4

\* s occurs in text, without regard to case.
Contains(text, s) ==
    \E off \in 0..(Len(text) - Len(s)) :
        \A i \in 1..Len(s) : Lower(text[off + i]) = Lower(s[i])

CellContains(cell, s) == ~isna(cell) /\ Contains(Val(cell), s)

RECURSIVE Dollars(_, _)
\* The whole dollars a currency text shows: its digits before the '.'.
Dollars(text, acc) ==
    IF text = <<>> \/ Head(text) = "." THEN acc
    ELSE IF Head(text) \in {"$", ","} THEN Dollars(Tail(text), acc)
    ELSE Dollars(Tail(text),
                 10 * acc + (CHOOSE n \in 0..9 : DigitChars[n + 1] = Head(text)))

\* C7: every row the query returns ends within [From End Date, To End Date],
\* both ends included, contains each search text that was given in the column
\* it is searched in, and has its value within the selected range.
C7_QueryRange ==
    \A j \in 1..Len(df) :
        LET row == df[j]
            day == strftime(SubSeq(Val(row.period_of_performance_current_end_date), 1, 3))
            value == Dollars(row.current_total_value_of_award, 0)
        IN  /\ ~isna(row.period_of_performance_current_end_date)
            /\ TextLE(strftime(end_date_min), day)
            /\ TextLE(day, strftime(end_date_max))
            /\ recipient_search # <<>> => CellContains(row.recipient_name, recipient_search)
            /\ agency_search # <<>> => CellContains(row.awarding_agency_name, agency_search)
            /\ description_search # <<>> =>
                  \/ CellContains(row.transaction_description, description_search)
                  \/ CellContains(row.prime_award_base_transaction_description,
                                  description_search)
            /\ value >= value_range[1]
            /\ value <= value_range[2]

====
